---------------------------- MODULE Spec2Model ----------------------------
(***************************************************************************)
(* A model of the AdTech analytics service's expiring cache                *)
(* (src/cache.py, class CacheManager) and of the two request handlers of   *)
(* src/main.py that use it (upload_data, get_statistics).                  *)
(*                                                                         *)
(* Conventions.                                                            *)
(*  - A Python Optional is a sequence: None is <<>>, a value v is <<v>>.   *)
(*  - The dict self._cache is a function whose DOMAIN is the set of keys   *)
(*    present; an entry is a record [value, expires_at].                   *)
(*  - time.time() is the variable now, counted in seconds ("ticks").       *)
(*  - Three specifications share the variables: Spec (one caller using     *)
(*    the CacheManager), AppSpec (the handlers of main.py on one event     *)
(*    loop) and ThreadSpec (two threads on one CacheManager, one step per  *)
(*    dict operation).                                                     *)
(***************************************************************************)
EXTENDS Integers, Sequences, FiniteSets, TLC

VARIABLES
    cache,      \* CacheManager._cache
    now,        \* the value time.time() returns
    ticks,      \* how often the clock has advanced (bounded by MaxTicks)
    last,       \* the operation that produced this state: its name, its
                \* arguments, its return value, whether it raised, and the
                \* map and time it started from
    written,    \* per key, the arguments and time of the most recent set
                \* since the last clear (None when there was none)
    db,         \* the rows of table ad_data, in insertion order
    uploads,    \* per upload request in flight, where it stands
    hist,       \* per filter combination, what the query handler did with
                \* it since the last clear of the cache
    thr,        \* per thread, the cache operation it runs, its position
                \* in the operation's code and its local variables
    shadow      \* a second CacheManager that gets the same calls but its own sweeps

vars == <<cache, now, ticks, last, written, db, uploads, hist, thr, shadow>>

---------------------------------------------------------------------------
(* Bounds of the model and constants of the program *)

MaxTicks == 2

DefaultTtl == 300

Keys == {"k1", "k2"}

Values == {"v1", "v2"}

\* ttl arguments of set: omitted (None), negative, zero, one tick
TtlArgs == {<<>>, <<-1>>, <<0>>, <<1>>}

\* the clock advances by one tick or by a whole default ttl
ClockSteps == {1, DefaultTtl}

None == <<>>

Some(v) == <<v>>

EmptyCache == [k \in {} |-> None]

---------------------------------------------------------------------------
(* CacheManager *)

\* del self._cache[key] raises KeyError when key is not in the dict
DelRaises(c, key) == key \notin DOMAIN c

\* del self._cache[key]
DictDel(c, key) == [k \in (DOMAIN c) \ {key} |-> c[k]]

\* self._cache[key] = entry
DictPut(c, key, entry) == [k \in (DOMAIN c) \cup {key} |-> IF k = key THEN entry ELSE c[k]]

GetExpiredInclusive(entry, t) == t >= entry.expires_at

\* get, line 24: time.time() > entry['expires_at']
GetExpired(entry, t) == t > entry.expires_at

SweepExpiredInclusive(entry, t) == t >= entry.expires_at

\* cleanup_expired, line 62: current_time > entry['expires_at']
SweepExpired(entry, t) == t > entry.expires_at

\* a get that renews the expiry of the entry it returns
CacheGetSliding(c, key, t) ==
    IF key \notin DOMAIN c
    THEN [ret |-> None, cache |-> c, raised |-> FALSE]
    ELSE IF GetExpired(c[key], t)
         THEN [ret |-> None, cache |-> DictDel(c, key), raised |-> DelRaises(c, key)]
         ELSE [ret |-> Some(c[key].value),
               cache |-> [c EXCEPT ![key].expires_at = t + DefaultTtl],
               raised |-> FALSE]

\* get(key) at time t: the value returned, the map afterwards, and whether
\* a KeyError was raised
CacheGet(c, key, t) ==
    IF key \notin DOMAIN c
    THEN [ret |-> None, cache |-> c, raised |-> FALSE]
    ELSE IF GetExpired(c[key], t)
         THEN [ret |-> None, cache |-> DictDel(c, key), raised |-> DelRaises(c, key)]
         ELSE [ret |-> Some(c[key].value), cache |-> c, raised |-> FALSE]

ExpiresAtFalsyTtl(ttl, t) == t + (IF ttl = None \/ ttl = <<0>> THEN DefaultTtl ELSE ttl[1])

\* set, lines 33-36: the expiry of the new entry
ExpiresAt(ttl, t) == t + (IF ttl = None THEN DefaultTtl ELSE ttl[1])

CacheSetIfAbsent(c, key, value, ttl, t) ==
    IF key \in DOMAIN c
    THEN c
    ELSE DictPut(c, key, [value |-> value, expires_at |-> ExpiresAt(ttl, t)])

\* set(key, value, ttl) at time t: the map afterwards
CacheSet(c, key, value, ttl, t) ==
    DictPut(c, key, [value |-> value, expires_at |-> ExpiresAt(ttl, t)])

CacheDeleteUnguarded(c, key) ==
    [ret |-> TRUE, cache |-> DictDel(c, key), raised |-> DelRaises(c, key)]

\* delete(key)
CacheDelete(c, key) ==
    IF key \in DOMAIN c
    THEN [ret |-> TRUE, cache |-> DictDel(c, key), raised |-> DelRaises(c, key)]
    ELSE [ret |-> FALSE, cache |-> c, raised |-> FALSE]

CacheClearOne(c) ==
    IF DOMAIN c = {} THEN c ELSE DictDel(c, CHOOSE k \in DOMAIN c : TRUE)

\* clear()
CacheClear(c) == [k \in {} |-> None]

\* cleanup_expired() at time t
CleanupExpired(c, t) ==
    LET expired_keys == {k \in DOMAIN c : SweepExpired(c[k], t)}
    IN  [ret |-> Cardinality(expired_keys),
         cache |-> [k \in (DOMAIN c) \ expired_keys |-> c[k]],
         raised |-> FALSE]

CacheGetStatsNoSweep(c, t) ==
    [ret |-> [total_entries |-> Cardinality(DOMAIN c), cache_keys |-> DOMAIN c],
     cache |-> c, raised |-> FALSE]

\* get_stats() at time t; cache_keys, a list in the dict's order, is kept as
\* the set of its elements
CacheGetStats(c, t) ==
    LET swept == CleanupExpired(c, t)
    IN  [ret |-> [total_entries |-> Cardinality(DOMAIN swept.cache),
                  cache_keys |-> DOMAIN swept.cache],
         cache |-> swept.cache,
         raised |-> swept.raised]

---------------------------------------------------------------------------
(* The table ad_data and the aggregator get_stats of src/database.py *)

MaxDb == 2

\* the dates the model's rows and filters use, as the day number the
\* database compares them by (no other date occurs in the model)
DateOrd(d) == CASE d = "2024-01-01" -> 1 [] d = "2024-01-02" -> 2 [] OTHER -> 0

\* Python's truth value of an Optional[str]: None and "" are false
Truthy(opt) == opt # None /\ opt # <<"">>

\* round(num / den * 100, 2) in hundredths, den > 0: the quotient is taken
\* exactly and a tie goes to the even neighbour
RateX100(num, den) ==
    LET n == num * 10000
        fl == n \div den
        rem == n % den
    IN  IF 2 * rem > den \/ (2 * rem = den /\ fl % 2 = 1) THEN fl + 1 ELSE fl

\* process_csv_data: a file without one of the required columns raises;
\* rows with clicks <= 0 are dropped (line 40).  The files of the model have
\* no impressions column and numeric clicks and conversions, so lines 33-36
\* and the dropna of line 39 remove nothing; conversion_rate, which line 43
\* derives as conversions / clicks * 100, is derived again where it is read
ProcessCsv(file) ==
    IF ~file.cols_ok
    THEN [ok |-> FALSE, records |-> <<>>]
    ELSE [ok |-> TRUE,
          records |-> SelectSeq(file.rows, LAMBDA row : row.clicks > 0)]

\* a failing save that keeps the rows added before the failure
SaveDataNoRollback(table, records, db_fails) ==
    LET added == table \o [i \in 1..Len(records) |->
                             [id |-> Len(table) + i,
                              date |-> records[i].date,
                              channel |-> records[i].channel,
                              clicks |-> records[i].clicks,
                              conversions |-> records[i].conversions]]
    IN  IF db_fails
        THEN [ok |-> FALSE, saved |-> 0, table |-> added]
        ELSE [ok |-> TRUE, saved |-> Len(records), table |-> added]

\* save_data: the rows of one upload appended in one transaction, each with
\* the next id; a failing commit is rolled back and leaves the table as it was
SaveData(table, records, db_fails) ==
    IF db_fails
    THEN [ok |-> FALSE, saved |-> 0, table |-> table]
    ELSE [ok |-> TRUE, saved |-> Len(records),
          table |-> table \o [i \in 1..Len(records) |->
                                [id |-> Len(table) + i,
                                 date |-> records[i].date,
                                 channel |-> records[i].channel,
                                 clicks |-> records[i].clicks,
                                 conversions |-> records[i].conversions]]]

\* the date bounds read as exclusive
PassesFiltersExclusive(row, start_date, end_date, channel) ==
    /\ Truthy(start_date) => DateOrd(row.date) > DateOrd(start_date[1])
    /\ Truthy(end_date) => DateOrd(row.date) < DateOrd(end_date[1])
    /\ Truthy(channel) => row.channel = channel[1]

\* the three tests chained with elif: only the first filter given is applied
PassesFiltersElif(row, start_date, end_date, channel) ==
    IF Truthy(start_date) THEN DateOrd(row.date) >= DateOrd(start_date[1])
    ELSE IF Truthy(end_date) THEN DateOrd(row.date) <= DateOrd(end_date[1])
    ELSE Truthy(channel) => row.channel = channel[1]

\* get_stats, lines 89-94: the filters of the query
PassesFilters(row, start_date, end_date, channel) ==
    /\ Truthy(start_date) => DateOrd(row.date) >= DateOrd(start_date[1])
    /\ Truthy(end_date) => DateOrd(row.date) <= DateOrd(end_date[1])
    /\ Truthy(channel) => row.channel = channel[1]

\* get_stats, lines 86-96: query.all() of the filtered query.  The query has
\* no ORDER BY; the rows come in the order of a sequential scan of a table
\* that is only ever appended to, which is insertion order
FilterQuery(rows, start_date, end_date, channel) ==
    SelectSeq(rows, LAMBDA row : PassesFilters(row, start_date, end_date, channel))

RECURSIVE SumOf(_, _)
\* sum(r[field] for r in data)
SumOf(rows, field) ==
    IF rows = <<>> THEN 0 ELSE rows[1][field] + SumOf(Tail(rows), field)

\* no clicks counted as full conversion
AvgConversionRateFull(total_conversions, total_clicks) ==
    IF total_clicks > 0 THEN RateX100(total_conversions, total_clicks) ELSE 10000

\* get_stats, lines 113 and 122, in hundredths of a percent
AvgConversionRate(total_conversions, total_clicks) ==
    IF total_clicks > 0 THEN RateX100(total_conversions, total_clicks) ELSE 0

\* get_stats, lines 99-108: the rows as returned
DataRows(results) ==
    [i \in 1..Len(results) |->
        [id |-> results[i].id,
         date |-> results[i].date,
         channel |-> results[i].channel,
         clicks |-> results[i].clicks,
         conversions |-> results[i].conversions,
         conversion_rate |-> RateX100(results[i].conversions, results[i].clicks)]]

\* the totals taken over the whole table instead of the rows returned
GetStatsTableTotals(table, start_date, end_date, channel) ==
    LET data == DataRows(FilterQuery(table, start_date, end_date, channel))
    IN  [data |-> data,
         summary |-> [total_records |-> Len(table),
                      total_clicks |-> SumOf(table, "clicks"),
                      total_conversions |-> SumOf(table, "conversions"),
                      avg_conversion_rate |->
                          AvgConversionRate(SumOf(table, "conversions"),
                                            SumOf(table, "clicks"))]]

\* get_stats, lines 96-123: the rows that pass the filters and their summary;
\* rates are in hundredths of a percent
GetStats(table, start_date, end_date, channel) ==
    LET data == DataRows(FilterQuery(table, start_date, end_date, channel))
        total_clicks == SumOf(data, "clicks")
        total_conversions == SumOf(data, "conversions")
    IN  [data |-> data,
         summary |-> [total_records |-> Len(data),
                      total_clicks |-> total_clicks,
                      total_conversions |-> total_conversions,
                      avg_conversion_rate |->
                          AvgConversionRate(total_conversions, total_clicks)]]

---------------------------------------------------------------------------
(* The handlers upload_data and get_statistics of src/main.py.  Both are    *)
(* coroutines of one event loop: a handler runs without interruption from   *)
(* one await to the next, and upload_data's only await is file.read().      *)

StatsTtl == 300

UploadIds == {"u1"}

\* the files clients upload: whether the name ends in .csv, whether the
\* required columns are there, and the rows
Files ==
    { [csv |-> TRUE, cols_ok |-> TRUE,
       rows |-> << [date |-> "2024-01-01", channel |-> "search", clicks |-> 100, conversions |-> 10] >>],
      [csv |-> TRUE, cols_ok |-> TRUE,
       rows |-> << [date |-> "2024-01-02", channel |-> "social", clicks |-> 50, conversions |-> 5],
                   [date |-> "2024-01-02", channel |-> "search", clicks |-> 0, conversions |-> 0] >>],
      [csv |-> TRUE, cols_ok |-> FALSE, rows |-> <<>>],
      [csv |-> FALSE, cols_ok |-> TRUE, rows |-> <<>>] }

\* the filter combinations clients ask statistics for
Requests ==
    { [start_date |-> None, end_date |-> None, channel |-> None],
      [start_date |-> Some("2024-01-02"), end_date |-> None, channel |-> Some("social")] }

\* str() of an Optional[str] inside an f-string
Str(opt) == IF opt = None THEN "None" ELSE opt[1]

\* get_statistics, line 121
CacheKey(start_date, end_date, channel) ==
    "stats_" \o Str(start_date) \o "_" \o Str(end_date) \o "_" \o Str(channel)

KeyOf(r) == CacheKey(r.start_date, r.end_date, r.channel)

\* the truth value of the rows of the result instead of the result's own
RowsTruthy(cached) == cached # None /\ cached[1].data # <<>>

\* Python's truth value of what cache.get returned: None is false, a dict is
\* true unless it is empty, and the dict get_stats builds has two keys
ResultTruthy(cached) == cached # None /\ DOMAIN cached[1] # {}

StoreNothing(c, cache_key, stats, t) == c

\* the result stored for an hour
StoreResultForAnHour(c, cache_key, stats, t) == CacheSet(c, cache_key, stats, Some(3600), t)

\* get_statistics, line 129: cache.set(cache_key, stats, ttl=300)
StoreResult(c, cache_key, stats, t) == CacheSet(c, cache_key, stats, Some(StatsTtl), t)

\* the failure stored as an empty result, for StatsTtl seconds
CacheTheError(c, cache_key, t) ==
    CacheSet(c, cache_key, [data |-> <<>>, summary |-> <<>>], Some(StatsTtl), t)

\* get_statistics, lines 131-132: an exception of get_stats is turned into
\* an HTTP 500 and nothing is stored
OnAggregatorError(c, cache_key, t) == c

KeepCache(c) == c

\* upload_data, line 104: the cache is cleared after the save
InvalidateAfterSave(c) == CacheClear(c)

---------------------------------------------------------------------------
(* One caller using the CacheManager *)

Op(name, key, args, r) ==
    [op |-> name, key |-> key, args |-> args, ret |-> r.ret, raised |-> r.raised,
     pre |-> cache, at |-> now]

Done == [ret |-> None, raised |-> FALSE]

InitCache ==
    /\ cache = EmptyCache
    /\ now = 0
    /\ ticks = 0
    /\ last = [op |-> "init", key |-> None, args |-> None, ret |-> None,
               raised |-> FALSE, pre |-> EmptyCache, at |-> 0]

\* the variables of the handlers of main.py, before any request
InitApp ==
    /\ db = <<>>
    /\ uploads = [u \in UploadIds |-> None]
    /\ hist = [r \in Requests |-> [called |-> FALSE, computed_at |-> None,
                                   failed |-> FALSE]]

Threads == {"t1", "t2"}

\* a thread that has not called the cache yet
Idle ==
    [pc |-> "idle", op |-> "none", key |-> None, value |-> None, ttl |-> None,
     entry |-> None, current_time |-> 0, it_size |-> 0, visited |-> {},
     expired_keys |-> {}, todo |-> {}, total |-> 0, ret |-> None, raised |-> FALSE]

appvars == <<db, uploads, hist, thr, shadow>>

Init ==
    /\ InitCache
    /\ written = [k \in Keys |-> None]
    /\ InitApp
    /\ thr = [t \in Threads |-> Idle]
    /\ shadow = EmptyCache

Get(key) ==
    LET r == CacheGet(cache, key, now)
    IN  /\ cache' = r.cache
        /\ last' = Op("get", Some(key), None, r)
        /\ UNCHANGED <<now, ticks, written, appvars>>

Set(key, value, ttl) ==
    /\ cache' = CacheSet(cache, key, value, ttl, now)
    /\ last' = Op("set", Some(key), <<value, ttl>>, Done)
    /\ written' = [written EXCEPT ![key] = Some([value |-> value, ttl |-> ttl, at |-> now])]
    /\ UNCHANGED <<now, ticks, appvars>>

Delete(key) ==
    LET r == CacheDelete(cache, key)
    IN  /\ cache' = r.cache
        /\ last' = Op("delete", Some(key), None, r)
        /\ UNCHANGED <<now, ticks, written, appvars>>

Clear ==
    /\ cache' = CacheClear(cache)
    /\ last' = Op("clear", None, None, Done)
    /\ written' = [k \in Keys |-> None]
    /\ UNCHANGED <<now, ticks, appvars>>

Sweep ==
    LET r == CleanupExpired(cache, now)
    IN  /\ cache' = r.cache
        /\ last' = Op("sweep", None, None, r)
        /\ UNCHANGED <<now, ticks, written, appvars>>

Stats ==
    LET r == CacheGetStats(cache, now)
    IN  /\ cache' = r.cache
        /\ last' = Op("stats", None, None, r)
        /\ UNCHANGED <<now, ticks, written, appvars>>

Tick(d) ==
    /\ ticks < MaxTicks
    /\ now' = now + d
    /\ ticks' = ticks + 1
    /\ last' = Op("tick", None, <<d>>, Done)
    /\ UNCHANGED <<cache, written, appvars>>

Next ==
    \/ \E k \in Keys : Get(k)
    \/ \E k \in Keys, v \in Values, ttl \in TtlArgs : Set(k, v, ttl)
    \/ \E k \in Keys : Delete(k)
    \/ Clear
    \/ Sweep
    \/ Stats
    \/ \E d \in ClockSteps : Tick(d)

Spec == Init /\ [][Next]_vars

---------------------------------------------------------------------------
(* The handlers of main.py on one event loop *)

HistInit == [r \in Requests |-> [called |-> FALSE, computed_at |-> None, failed |-> FALSE]]

\* what is known of the calls after a clear of the cache: only whether the
\* most recent call with these parameters ended in an error
HistCleared(h) == [r \in Requests |-> [HistInit[r] EXCEPT !.failed = h[r].failed]]

\* upload_data up to its await: a name that does not end in .csv is refused
\* with 400, otherwise the handler waits for file.read()
UploadBegin(u, file) ==
    /\ uploads[u] = None
    /\ IF file.csv
       THEN /\ uploads' = [uploads EXCEPT ![u] = Some(file)]
            /\ last' = [op |-> "upload_read", status |-> 0, pre |-> cache, at |-> now]
       ELSE /\ uploads' = uploads
            /\ last' = [op |-> "upload", status |-> 400, saved |-> 0, pre |-> cache,
                        pre_db |-> db, at |-> now, rows |-> file.rows]
    /\ UNCHANGED <<cache, now, ticks, written, db, hist, thr, shadow>>

\* upload_data after its await, lines 100-112: process, save, clear the
\* cache, report; an exception anywhere is reported as 400
UploadFinish(u, db_fails) ==
    /\ uploads[u] # None
    /\ LET processed == ProcessCsv(uploads[u][1])
           saved == SaveData(db, processed.records, db_fails)
       IN  IF processed.ok /\ saved.ok
           THEN /\ Len(saved.table) <= MaxDb
                /\ db' = saved.table
                /\ cache' = InvalidateAfterSave(cache)
                /\ hist' = HistCleared(hist)
                /\ last' = [op |-> "upload", status |-> 200, saved |-> saved.saved,
                            pre |-> cache, pre_db |-> db, at |-> now,
                            rows |-> uploads[u][1].rows]
           ELSE /\ db' = IF processed.ok THEN saved.table ELSE db
                /\ last' = [op |-> "upload", status |-> 400, saved |-> 0,
                            pre |-> cache, pre_db |-> db, at |-> now,
                            rows |-> uploads[u][1].rows]
                /\ UNCHANGED <<cache, hist>>
    /\ uploads' = [uploads EXCEPT ![u] = None]
    /\ UNCHANGED <<now, ticks, written, thr, shadow>>

\* get_statistics, lines 121-132: the cached result if cache.get returns a
\* true value, otherwise the aggregator's result, stored for StatsTtl
\* seconds; an exception of the aggregator is reported as 500
GetStatistics(r, db_fails) ==
    LET cache_key == CacheKey(r.start_date, r.end_date, r.channel)
        got == CacheGet(cache, cache_key, now)
        stats == GetStats(db, r.start_date, r.end_date, r.channel)
        seen == [op |-> "stats", req |-> r, pre |-> cache, at |-> now,
                 again |-> hist[r].called, computed_at |-> hist[r].computed_at,
                 failed_before |-> hist[r].failed]
    IN  /\ IF ResultTruthy(got.ret)
           THEN /\ cache' = got.cache
                /\ last' = seen @@
                           [status |-> 200, ret |-> got.ret, invoked |-> FALSE]
                /\ hist' = [hist EXCEPT ![r].called = TRUE, ![r].failed = FALSE]
           ELSE IF db_fails
           THEN /\ cache' = OnAggregatorError(got.cache, cache_key, now)
                /\ last' = seen @@ [status |-> 500, ret |-> None, invoked |-> TRUE]
                /\ hist' = [hist EXCEPT ![r].called = TRUE, ![r].failed = TRUE]
           ELSE /\ cache' = StoreResult(got.cache, cache_key, stats, now)
                /\ last' = seen @@ [status |-> 200, ret |-> Some(stats), invoked |-> TRUE]
                /\ hist' = [hist EXCEPT ![r] = [called |-> TRUE, computed_at |-> Some(now),
                                                failed |-> FALSE]]
        /\ UNCHANGED <<now, ticks, written, db, uploads, thr, shadow>>

AppNext ==
    \/ \E u \in UploadIds, file \in Files : UploadBegin(u, file)
    \/ \E u \in UploadIds, db_fails \in BOOLEAN : UploadFinish(u, db_fails)
    \/ \E r \in Requests, db_fails \in BOOLEAN : GetStatistics(r, db_fails)
    \/ \E d \in ClockSteps : Tick(d)

AppSpec == Init /\ [][AppNext]_vars

---------------------------------------------------------------------------
(* Two threads on one CacheManager.  The class takes no lock, so another    *)
(* thread can run between any two dict operations of a method; each action  *)
(* below is one such operation.  Each thread makes one call.  The clock     *)
(* stands still, and the threads start from a map a single caller can have  *)
(* built: each key absent, expired, or live.                                *)

\* the maps the threads start from, at time t: each key absent, or set one
\* tick ago with ttl 0 or 2
StartCaches(t) ==
    UNION { [ks -> { [value |-> "v1", expires_at |-> t - 1],
                     [value |-> "v1", expires_at |-> t + 1] }]
            : ks \in SUBSET Keys }

\* the calls a thread can make
ThreadOps ==
    { [op |-> o, key |-> Some(k), value |-> None, ttl |-> None]
        : o \in {"get", "delete"}, k \in Keys }
    \cup { [op |-> "set", key |-> Some(k), value |-> Some("v2"), ttl |-> Some(1)] : k \in Keys }
    \cup { [op |-> o, key |-> None, value |-> None, ttl |-> None]
             : o \in {"clear", "sweep", "stats"} }

ThreadInit ==
    /\ now = 1
    /\ ticks = 1
    /\ cache \in StartCaches(now)
    /\ last = [op |-> "threads", key |-> None, args |-> None, ret |-> None,
               raised |-> FALSE, pre |-> cache, at |-> now]
    /\ written = [k \in Keys |-> None]
    /\ InitApp
    /\ thr = [t \in Threads |-> Idle]
    /\ shadow = EmptyCache

threadframe == <<now, ticks, last, written, db, uploads, hist, shadow>>

\* the first dict operation of each method
FirstPc(op) ==
    CASE op = "get" -> "get_in"
      [] op = "set" -> "set_store"
      [] op = "delete" -> "delete_in"
      [] op = "clear" -> "clear"
      [] OTHER -> "sweep_time"

Return(t, ret) == [thr EXCEPT ![t].pc = "done", ![t].ret = ret]

Raise(t) == [thr EXCEPT ![t].pc = "done", ![t].raised = TRUE]

ThreadCall(t, o) ==
    /\ thr[t].pc = "idle"
    /\ thr' = [thr EXCEPT ![t].pc = FirstPc(o.op), ![t].op = o.op, ![t].key = o.key,
                          ![t].value = o.value, ![t].ttl = o.ttl]
    /\ UNCHANGED <<cache, threadframe>>

\* get, line 20: if key not in self._cache: return None
GetIn(t) ==
    /\ thr[t].pc = "get_in"
    /\ thr' = IF thr[t].key[1] \notin DOMAIN cache
              THEN Return(t, None)
              ELSE [thr EXCEPT ![t].pc = "get_read"]
    /\ UNCHANGED <<cache, threadframe>>

\* get, line 23: entry = self._cache[key], a KeyError when the key is gone
GetRead(t) ==
    /\ thr[t].pc = "get_read"
    /\ thr' = IF thr[t].key[1] \notin DOMAIN cache
              THEN Raise(t)
              ELSE [thr EXCEPT ![t].pc = "get_compare", ![t].entry = Some(cache[thr[t].key[1]])]
    /\ UNCHANGED <<cache, threadframe>>

\* get, lines 24 and 29: the expiry test, and the return of a live value
GetCompare(t) ==
    /\ thr[t].pc = "get_compare"
    /\ thr' = IF GetExpired(thr[t].entry[1], now)
              THEN [thr EXCEPT ![t].pc = "get_del"]
              ELSE Return(t, Some(thr[t].entry[1].value))
    /\ UNCHANGED <<cache, threadframe>>

\* get, lines 25-26: del self._cache[key]; return None
GetDel(t) ==
    /\ thr[t].pc = "get_del"
    /\ IF DelRaises(cache, thr[t].key[1])
       THEN thr' = Raise(t) /\ cache' = cache
       ELSE thr' = Return(t, None) /\ cache' = DictDel(cache, thr[t].key[1])
    /\ UNCHANGED threadframe

\* set, lines 36-40
SetStore(t) ==
    /\ thr[t].pc = "set_store"
    /\ cache' = CacheSet(cache, thr[t].key[1], thr[t].value[1], thr[t].ttl, now)
    /\ thr' = Return(t, None)
    /\ UNCHANGED threadframe

\* delete, lines 46 and 50: if key in self._cache, else return False
DeleteIn(t) ==
    /\ thr[t].pc = "delete_in"
    /\ thr' = IF thr[t].key[1] \in DOMAIN cache
              THEN [thr EXCEPT ![t].pc = "delete_del"]
              ELSE Return(t, Some(FALSE))
    /\ UNCHANGED <<cache, threadframe>>

\* delete, lines 47-49: del self._cache[key]; return True
DeleteDel(t) ==
    /\ thr[t].pc = "delete_del"
    /\ IF DelRaises(cache, thr[t].key[1])
       THEN thr' = Raise(t) /\ cache' = cache
       ELSE thr' = Return(t, Some(TRUE)) /\ cache' = DictDel(cache, thr[t].key[1])
    /\ UNCHANGED threadframe

\* clear, line 54
ClearAll(t) ==
    /\ thr[t].pc = "clear"
    /\ cache' = CacheClear(cache)
    /\ thr' = Return(t, None)
    /\ UNCHANGED threadframe

\* cleanup_expired, lines 59-61: the time is read and the iteration over
\* self._cache.items() starts; the iterator remembers the dict's size
SweepTime(t) ==
    /\ thr[t].pc = "sweep_time"
    /\ thr' = [thr EXCEPT ![t].pc = "sweep_iter", ![t].current_time = now,
                          ![t].it_size = Cardinality(DOMAIN cache)]
    /\ UNCHANGED <<cache, threadframe>>

\* cleanup_expired, lines 60-63: one step of the iteration, a RuntimeError
\* when the dict's size has changed since the iteration started; the order
\* of the items is left open
SweepIter(t) ==
    /\ thr[t].pc = "sweep_iter"
    /\ IF Cardinality(DOMAIN cache) # thr[t].it_size
       THEN thr' = Raise(t)
       ELSE IF DOMAIN cache \ thr[t].visited = {}
       THEN thr' = [thr EXCEPT ![t].pc = "sweep_del", ![t].todo = thr[t].expired_keys]
       ELSE \E k \in DOMAIN cache \ thr[t].visited :
               thr' = [thr EXCEPT ![t].visited = @ \cup {k},
                                  ![t].expired_keys =
                                      IF SweepExpired(cache[k], thr[t].current_time)
                                      THEN @ \cup {k} ELSE @]
    /\ UNCHANGED <<cache, threadframe>>

\* cleanup_expired, lines 65-71: del self._cache[key] for each expired key,
\* then the count; get_stats goes on to line 77
SweepDel(t) ==
    /\ thr[t].pc = "sweep_del"
    /\ IF thr[t].todo = {}
       THEN /\ thr' = IF thr[t].op = "sweep"
                      THEN Return(t, Some(Cardinality(thr[t].expired_keys)))
                      ELSE [thr EXCEPT ![t].pc = "stats_len"]
            /\ cache' = cache
       ELSE \E k \in thr[t].todo :
               IF DelRaises(cache, k)
               THEN thr' = Raise(t) /\ cache' = cache
               ELSE /\ thr' = [thr EXCEPT ![t].todo = @ \ {k}]
                    /\ cache' = DictDel(cache, k)
    /\ UNCHANGED threadframe

\* get_stats, line 77: len(self._cache)
StatsLen(t) ==
    /\ thr[t].pc = "stats_len"
    /\ thr' = [thr EXCEPT ![t].pc = "stats_keys", ![t].total = Cardinality(DOMAIN cache)]
    /\ UNCHANGED <<cache, threadframe>>

\* get_stats, line 78: list(self._cache.keys())
StatsKeys(t) ==
    /\ thr[t].pc = "stats_keys"
    /\ thr' = Return(t, Some([total_entries |-> thr[t].total, cache_keys |-> DOMAIN cache]))
    /\ UNCHANGED <<cache, threadframe>>

ThreadNext ==
    \E t \in Threads :
        \/ \E o \in ThreadOps : ThreadCall(t, o)
        \/ GetIn(t)
        \/ GetRead(t)
        \/ GetCompare(t)
        \/ GetDel(t)
        \/ SetStore(t)
        \/ DeleteIn(t)
        \/ DeleteDel(t)
        \/ ClearAll(t)
        \/ SweepTime(t)
        \/ SweepIter(t)
        \/ SweepDel(t)
        \/ StatsLen(t)
        \/ StatsKeys(t)

ThreadSpec == ThreadInit /\ [][ThreadNext]_vars

---------------------------------------------------------------------------
(* Claims about the CacheManager, checked under Spec *)

LastKey == last.key[1]

\* the entry the last operation found under its key
PreEntry == last.pre[LastKey]

\* the ttl an entry was written with, with the default filled in
WrittenTtl(w) == IF w.ttl = None THEN 300 ELSE w.ttl[1]

\* C1: get(key) returns the stored value exactly when an entry for key is
\* present and now <= expires_at (now = expires_at included); otherwise it
\* returns absent, so no value whose expires_at has passed is ever returned.
C1_GetReturnsLiveOnly ==
    last.op = "get" =>
        /\ ~last.raised
        /\ last.ret = IF LastKey \in DOMAIN last.pre /\ last.at <= PreEntry.expires_at
                      THEN Some(PreEntry.value)
                      ELSE None
        /\ last.ret # None => last.at <= PreEntry.expires_at

\* a get at exactly now = expires_at returned the value
C1_Witness ==
    /\ last.op = "get"
    /\ LastKey \in DOMAIN last.pre
    /\ PreEntry.expires_at = last.at
    /\ last.ret = Some(PreEntry.value)
    /\ ticks > 0

\* C4: set overwrites unconditionally: after set(k, v, ttl) the entry of k
\* is (v, now + ttl), with the default ttl when omitted, whatever was stored
\* before, and every other entry is as before; a get of k that returns a
\* value returns the value of the most recent set of k, never an older one.
C4_SetOverwrites ==
    /\ last.op = "set" =>
        /\ DOMAIN cache = DOMAIN last.pre \cup {LastKey}
        /\ cache[LastKey] = [value |-> last.args[1],
                             expires_at |-> last.at + WrittenTtl([ttl |-> last.args[2]])]
        /\ \A k \in DOMAIN last.pre \ {LastKey} : cache[k] = last.pre[k]
    /\ \A k \in DOMAIN cache :
        /\ written[k] # None
        /\ cache[k] = [value |-> written[k][1].value,
                       expires_at |-> written[k][1].at + WrittenTtl(written[k][1])]
    /\ (last.op = "get" /\ last.ret # None) =>
        /\ written[LastKey] # None
        /\ last.ret = Some(written[LastKey][1].value)

\* a set replaced a live entry holding another value and another expiry
C4_Witness ==
    /\ last.op = "set"
    /\ LastKey \in DOMAIN last.pre
    /\ PreEntry.value # last.args[1]
    /\ PreEntry.expires_at > last.at
    /\ cache[LastKey].expires_at < PreEntry.expires_at

\* C5 as stated: the next get of an entry stored with a non-positive ttl
\* returns absent, also at the clock value of the set.
C5_NonPositiveTtlExpired ==
    (/\ last.op = "get"
     /\ LastKey \in DOMAIN last.pre
     /\ written[LastKey] # None
     /\ WrittenTtl(written[LastKey][1]) <= 0) => last.ret = None

\* C5 amended: an entry stored with a negative ttl is absent for every later
\* get, also at the clock value of the set; an entry stored with ttl = 0 is
\* absent for every get after the clock has advanced, and is still returned
\* by a get at the clock value of the set.
C5_NonPositiveTtlAmended ==
    (/\ last.op = "get"
     /\ LastKey \in DOMAIN last.pre
     /\ written[LastKey] # None
     /\ WrittenTtl(written[LastKey][1]) <= 0) =>
        LET w == written[LastKey][1]
        IN  IF WrittenTtl(w) < 0 \/ last.at > w.at
            THEN last.ret = None /\ LastKey \notin DOMAIN cache
            ELSE last.ret = Some(w.value)

\* a get at the clock value of a set with negative ttl returned absent
C5_Witness ==
    /\ last.op = "get"
    /\ LastKey \in DOMAIN last.pre
    /\ written[LastKey] # None
    /\ WrittenTtl(written[LastKey][1]) < 0
    /\ written[LastKey][1].at = last.at
    /\ last.ret = None

\* the keys of the map m whose entry has not expired at time t
LiveKeys(m, t) == {k \in DOMAIN m : m[k].expires_at >= t}

\* C7: sweep removes exactly the entries with expires_at < now and returns
\* how many it removed; every entry with expires_at >= now stays, with its
\* value and expiry unchanged.
C7_SweepRemovesExpired ==
    last.op = "sweep" =>
        /\ ~last.raised
        /\ DOMAIN cache = LiveKeys(last.pre, last.at)
        /\ \A k \in DOMAIN cache : cache[k] = last.pre[k]
        /\ last.ret = Cardinality({k \in DOMAIN last.pre : last.pre[k].expires_at < last.at})
        /\ last.ret = Cardinality(DOMAIN last.pre) - Cardinality(DOMAIN cache)

\* a sweep removed one expired entry and kept one expiring at this instant
C7_Witness ==
    /\ last.op = "sweep"
    /\ last.ret = 1
    /\ \E k \in DOMAIN cache : cache[k].expires_at = last.at
    /\ \E k \in DOMAIN last.pre : last.pre[k].expires_at < last.at

\* C8: stats sweeps first and reports live entries only: total_entries is
\* the number of reported keys, the reported keys are the entries with
\* expires_at >= now, and an entry set with ttl = 1 and not read since is
\* not counted once the clock is more than 1 tick past its set.
C8_StatsReportsLive ==
    last.op = "stats" =>
        /\ ~last.raised
        /\ last.ret.total_entries = Cardinality(last.ret.cache_keys)
        /\ last.ret.cache_keys = LiveKeys(last.pre, last.at)
        /\ last.ret.cache_keys = DOMAIN cache
        /\ \A k \in DOMAIN cache : cache[k] = last.pre[k]
        /\ \A k \in DOMAIN last.pre :
            (written[k][1].ttl = <<1>> /\ last.at > written[k][1].at + 1)
                => k \notin last.ret.cache_keys

\* stats found two entries, one of them set with ttl = 1 more than one tick
\* ago, and counted one entry
C8_Witness ==
    /\ last.op = "stats"
    /\ Cardinality(DOMAIN last.pre) = 2
    /\ last.ret.total_entries = 1
    /\ \E k \in DOMAIN last.pre :
        /\ written[k][1].ttl = <<1>>
        /\ last.at > written[k][1].at + 1
        /\ k \notin last.ret.cache_keys

\* C9: delete(key) returns true exactly when an entry for key was in the
\* map, live or expired, and removes it; for an absent key it returns false
\* and changes nothing; it never raises and never touches another key.
C9_DeleteReturnsPresence ==
    last.op = "delete" =>
        /\ ~last.raised
        /\ last.ret = (LastKey \in DOMAIN last.pre)
        /\ DOMAIN cache = DOMAIN last.pre \ {LastKey}
        /\ \A k \in DOMAIN cache : cache[k] = last.pre[k]
        /\ LastKey \notin DOMAIN last.pre => cache = last.pre

\* a delete removed an expired entry that had not been swept, and left the
\* other entry alone
C9_Witness ==
    /\ last.op = "delete"
    /\ last.ret = TRUE
    /\ LastKey \in DOMAIN last.pre
    /\ PreEntry.expires_at < last.at
    /\ DOMAIN cache # {}

\* C10: clear leaves no entry, from any state (so clear on an empty cache
\* changes nothing and a second clear yields the state of the first); after
\* a clear no key is in the map, and get returns absent for it, until that
\* key is set again.
C10_ClearEmpties ==
    /\ last.op = "clear" =>
        /\ ~last.raised
        /\ DOMAIN cache = {}
        /\ cache = EmptyCache
        /\ last.pre = EmptyCache => cache = last.pre
    /\ \A k \in Keys : written[k] = None => k \notin DOMAIN cache
    /\ (last.op = "get" /\ written[LastKey] = None) => last.ret = None

\* a clear emptied a cache that held a live and an expired entry
C10_Witness ==
    /\ last.op = "clear"
    /\ \E k \in DOMAIN last.pre : last.pre[k].expires_at < last.at
    /\ \E k \in DOMAIN last.pre : last.pre[k].expires_at > last.at
    /\ cache = EmptyCache

---------------------------------------------------------------------------
(* Claims about the handlers, checked under AppSpec *)

\* what the aggregator returns for request r on the table as it is now
CurrentStats(r) == GetStats(db, r.start_date, r.end_date, r.channel)

\* C2 as stated: a call of the query handler that follows another call with
\* the same filter parameters, with no clear() in between, does not invoke
\* the aggregator, whatever else happened in between; a call with no such
\* earlier call since the last clear() invokes it.
C2_SecondCallNeverInvokes ==
    last.op = "stats" =>
        /\ last.again => ~last.invoked
        /\ ~last.again => last.invoked

\* C2 amended: a call of the query handler does not invoke the aggregator,
\* and returns the cached result, when a call with the same filter
\* parameters has computed a result since the last clear() and no more than
\* 300 seconds ago; it invokes the aggregator when no call with these
\* parameters has computed a result since the last clear() (none was made,
\* or the aggregator raised), or when the result was computed more than 300
\* seconds ago.
C2_SecondCallHitsWithinTtl ==
    last.op = "stats" =>
        /\ (last.computed_at # None /\ last.at <= last.computed_at[1] + 300) =>
            /\ ~last.invoked
            /\ last.status = 200
            /\ last.ret = Some(last.pre[KeyOf(last.req)].value)
        /\ last.computed_at = None => last.invoked
        /\ (last.computed_at # None /\ last.at > last.computed_at[1] + 300) => last.invoked

\* a second call, exactly 300 seconds after the result was computed, was
\* served from the cache
C2_Witness ==
    /\ last.op = "stats"
    /\ last.again
    /\ ~last.invoked
    /\ last.computed_at # None
    /\ last.at = last.computed_at[1] + 300
    /\ db # <<>>

\* C3: no stale aggregate is served after new data is saved: an upload that
\* reports success has saved its rows and left the cache empty, every entry
\* in the cache equals what the aggregator returns on the table as it is
\* now, and so does every result the query handler returns, in every
\* interleaving of the handlers.
C3_NoStaleStats ==
    /\ \A r \in Requests :
        KeyOf(r) \in DOMAIN cache => cache[KeyOf(r)].value = CurrentStats(r)
    /\ (last.op = "stats" /\ last.status = 200) => last.ret = Some(CurrentStats(last.req))
    /\ (last.op = "upload" /\ last.status = 200) =>
        /\ cache = EmptyCache
        /\ Len(db) = Len(last.pre_db) + last.saved
        /\ SubSeq(db, 1, Len(last.pre_db)) = last.pre_db

\* a query was served from the cache, with rows of two uploads in it, while
\* a third upload was waiting for its file
C3_Witness ==
    /\ last.op = "stats"
    /\ last.status = 200
    /\ ~last.invoked
    /\ last.ret[1].summary.total_records = 2
    /\ Len(db) = 2
    /\ \E u \in UploadIds : uploads[u] # None

---------------------------------------------------------------------------
(* The claim about threads, checked under ThreadSpec *)

\* the call of thread t run as one critical section on map c: what it
\* returns and the map afterwards
Atomic(t, c) ==
    LET o == thr[t]
        r == CASE o.op = "get" -> CacheGet(c, o.key[1], now)
               [] o.op = "set" ->
                    [ret |-> None, cache |-> CacheSet(c, o.key[1], o.value[1], o.ttl, now)]
               [] o.op = "delete" -> CacheDelete(c, o.key[1])
               [] o.op = "clear" -> [ret |-> None, cache |-> CacheClear(c)]
               [] o.op = "sweep" -> CleanupExpired(c, now)
               [] OTHER -> CacheGetStats(c, now)
    IN  [ret |-> IF o.op \in {"delete", "sweep", "stats"} THEN Some(r.ret) ELSE r.ret,
         cache |-> r.cache]

\* the threads' results and the final map are those of running t's call and
\* then u's call, each as one critical section, from the starting map
SerialOrder(t, u) ==
    LET first == Atomic(t, last.pre)
        second == Atomic(u, first.cache)
    IN  /\ thr[t].ret = first.ret
        /\ thr[u].ret = second.ret
        /\ cache = second.cache

\* C6: under every interleaving of two threads on one CacheManager no
\* operation raises, and once both calls have returned their results and
\* the map are those of the two calls run one after the other in some order.
C6_ThreadsSerializable ==
    /\ \A t \in Threads : ~thr[t].raised
    /\ (\A t \in Threads : thr[t].pc = "done") =>
        (SerialOrder("t1", "t2") \/ SerialOrder("t2", "t1"))

---------------------------------------------------------------------------
(* The cache key of get_statistics as a function of the filter parameters   *)

\* values a filter parameter can take: absent, or a string a client sends
KeyParams == {None, Some("None"), Some("a"), Some("a_b"), Some("b")}

KeyTriples ==
    { [start_date |-> sd, end_date |-> ed, channel |-> ch]
        : sd \in KeyParams, ed \in KeyParams, ch \in KeyParams }

\* two requests waiting to be served, with any filter parameters
KeyInit ==
    /\ cache = EmptyCache
    /\ now = 0
    /\ ticks = 0
    /\ last \in { [op |-> "requests", a |-> a, b |-> b] : a \in KeyTriples, b \in KeyTriples }
    /\ written = [k \in Keys |-> None]
    /\ InitApp
    /\ thr = [t \in Threads |-> Idle]
    /\ shadow = EmptyCache

\* get_statistics, line 121, for the parameters of the two requests
BuildKeys ==
    /\ last.op = "requests"
    /\ last' = [op |-> "cache_key", a |-> last.a, b |-> last.b,
                key_a |-> CacheKey(last.a.start_date, last.a.end_date, last.a.channel),
                key_b |-> CacheKey(last.b.start_date, last.b.end_date, last.b.channel)]
    /\ UNCHANGED <<cache, now, ticks, written, appvars>>

KeyNext == BuildKeys

KeySpec == KeyInit /\ [][KeyNext]_vars

\* C11: the cache key is injective on filter combinations: two distinct
\* triples (start_date, end_date, channel), each component absent or a
\* string, never get the same cache key.
C11_CacheKeyInjective ==
    (last.op = "cache_key" /\ last.a # last.b) => last.key_a # last.key_b

\* C12: a cached result is served whatever it holds: when the cache has a
\* live entry for the request, also one whose result has no rows and zero
\* totals, the query handler returns it and does not invoke the aggregator.
C12_EmptyResultServedFromCache ==
    (/\ last.op = "stats"
     /\ KeyOf(last.req) \in DOMAIN last.pre
     /\ last.at <= last.pre[KeyOf(last.req)].expires_at) =>
        /\ ~last.invoked
        /\ last.status = 200
        /\ last.ret = Some(last.pre[KeyOf(last.req)].value)

\* the handler served from the cache a result with no rows and zero totals,
\* computed when the table already held rows that the filters exclude
C12_Witness ==
    /\ last.op = "stats"
    /\ ~last.invoked
    /\ last.ret # None
    /\ last.ret[1].data = <<>>
    /\ last.ret[1].summary.total_records = 0
    /\ last.ret[1].summary.total_clicks = 0
    /\ db # <<>>

---------------------------------------------------------------------------
(* The aggregations of src/database.py and src/data_processing.py as        *)
(* functions of the table: get_stats, get_channel_summary and               *)
(* aggregate_by_channel applied once to every table that uploads can build  *)

MaxRows == 3

\* the rows an uploaded file is made of; one of them has no clicks
CsvRows ==
    { [date |-> "2024-01-01", channel |-> "search", clicks |-> 100, conversions |-> 10],
      [date |-> "2024-01-01", channel |-> "social", clicks |-> 50, conversions |-> 5],
      [date |-> "2024-01-02", channel |-> "search", clicks |-> 200, conversions |-> 30],
      [date |-> "2024-01-02", channel |-> "email", clicks |-> 50, conversions |-> 10],
      [date |-> "2024-01-02", channel |-> "social", clicks |-> 0, conversions |-> 0] }

CsvFiles ==
    { [csv |-> TRUE, cols_ok |-> TRUE, rows |-> rs]
        : rs \in UNION { [1..n -> CsvRows] : n \in 0..MaxRows } }

\* the tables process_csv_data and save_data make of these files
Tables == { SaveData(<<>>, ProcessCsv(f).records, FALSE).table : f \in CsvFiles }

\* the values of a date filter and of the channel filter of a query
DateParams == {None, Some(""), Some("2024-01-01"), Some("2024-01-02")}
ChannelParams == {None, Some(""), Some("search"), Some("social")}

RECURSIVE Gcd(_, _)
Gcd(a, b) == IF b = 0 THEN a ELSE Gcd(b, a % b)

\* the exact quotient n / d, d > 0, in lowest terms
Frac(n, d) == LET g == Gcd(n, d) IN [num |-> n \div g, den |-> d \div g]

FracAdd(p, q) == Frac(p.num * q.den + q.num * p.den, p.den * q.den)

\* round(n / d), a tie going to the even neighbour as Python's round does
RoundHalfEven(n, d) ==
    LET fl == n \div d
        rem == n % d
    IN  IF 2 * rem > d \/ (2 * rem = d /\ fl % 2 = 1) THEN fl + 1 ELSE fl

\* process_csv_data, line 43: the rate stored with a record, in percent
ConversionRate(row) == Frac(row.conversions * 100, row.clicks)

RECURSIVE SumRates(_)
SumRates(rows) ==
    IF rows = <<>> THEN Frac(0, 1)
    ELSE FracAdd(ConversionRate(rows[1]), SumRates(Tail(rows)))

ChannelsOf(rows) == { rows[i].channel : i \in DOMAIN rows }

RowsOf(rows, ch) == SelectSeq(rows, LAMBDA row : row.channel = ch)

\* get_channel_summary, lines 138-159: one row of GROUP BY channel;
\* AVG(conversion_rate) is the mean of the stored rates of the channel's
\* records, rounded to two places, in hundredths of a percent
ChannelSummaryRow(table, ch) ==
    LET rows == RowsOf(table, ch)
        rates == SumRates(rows)
    IN  [channel |-> ch,
         record_count |-> Len(rows),
         total_clicks |-> SumOf(rows, "clicks"),
         total_conversions |-> SumOf(rows, "conversions"),
         avg_conversion_rate |-> RoundHalfEven(rates.num * 100, rates.den * Len(rows))]

\* ORDER BY total_clicks DESC, line 146: every order of the channels in
\* which total_clicks does not increase; SQL leaves the order of rows with
\* equal total_clicks to the database
SummaryOrders(table) ==
    LET chs == ChannelsOf(table)
    IN  { s \in [1..Cardinality(chs) -> chs] :
            /\ \A i, j \in DOMAIN s : i # j => s[i] # s[j]
            /\ \A i, j \in DOMAIN s :
                 i < j => SumOf(RowsOf(table, s[i]), "clicks") >=
                          SumOf(RowsOf(table, s[j]), "clicks") }

\* get_channel_summary, lines 131-167, for one order the database may use
GetChannelSummary(table, order) ==
    [i \in DOMAIN order |-> ChannelSummaryRow(table, order[i])]

\* the string order of the channel names
ChannelOrd(ch) ==
    CASE ch = "email" -> 1 [] ch = "search" -> 2 [] ch = "social" -> 3 [] OTHER -> 0

\* groupby('channel') of pandas: the group keys in sorted order
SortedChannels(rows) ==
    LET chs == ChannelsOf(rows)
    IN  CHOOSE s \in [1..Cardinality(chs) -> chs] :
            \A i, j \in DOMAIN s : i < j => ChannelOrd(s[i]) < ChannelOrd(s[j])

\* aggregate_by_channel, lines 73-89: sums per channel, the rate recomputed
\* from the sums (line 87) and not rounded, in percent
AggregateByChannel(df) ==
    IF df = <<>> THEN <<>>
    ELSE LET keys == SortedChannels(df)
         IN  [i \in DOMAIN keys |->
                LET rows == RowsOf(df, keys[i])
                IN  [channel |-> keys[i],
                     clicks |-> SumOf(rows, "clicks"),
                     conversions |-> SumOf(rows, "conversions"),
                     conversion_rate |->
                         Frac(SumOf(rows, "conversions") * 100, SumOf(rows, "clicks"))]]

AggInit ==
    /\ InitCache
    /\ written = [k \in Keys |-> None]
    /\ db \in Tables
    /\ uploads = [u \in UploadIds |-> None]
    /\ hist = HistInit
    /\ thr = [t \in Threads |-> Idle]
    /\ shadow = EmptyCache

aggframe == <<cache, now, ticks, written, appvars>>

\* get_stats(db, start_date, end_date, channel)
QueryStats(start_date, end_date, channel) ==
    /\ last.op = "init"
    /\ last' = [op |-> "get_stats", start_date |-> start_date,
                end_date |-> end_date, channel |-> channel,
                ret |-> GetStats(db, start_date, end_date, channel)]
    /\ UNCHANGED aggframe

\* the query of get_stats with the channel filter applied to the rows the
\* start_date filter leaves, the other way round, and with both at once
FilterTwice(start_date, channel) ==
    /\ last.op = "init"
    /\ last' = [op |-> "filter_twice", start_date |-> start_date, channel |-> channel,
                channel_first |-> FilterQuery(FilterQuery(db, None, None, channel),
                                              start_date, None, None),
                date_first |-> FilterQuery(FilterQuery(db, start_date, None, None),
                                           None, None, channel),
                one_call |-> FilterQuery(db, start_date, None, channel)]
    /\ UNCHANGED aggframe

\* get_channel_summary(db)
ChannelSummary ==
    /\ last.op = "init"
    /\ \E order \in SummaryOrders(db) :
         last' = [op |-> "channel_summary", ret |-> GetChannelSummary(db, order)]
    /\ UNCHANGED aggframe

\* aggregate_by_channel(df) on the processed records
AggregateChannels ==
    /\ last.op = "init"
    /\ last' = [op |-> "aggregate_by_channel", ret |-> AggregateByChannel(db)]
    /\ UNCHANGED aggframe

AggNext ==
    \/ \E sd \in DateParams, ed \in DateParams, ch \in ChannelParams : QueryStats(sd, ed, ch)
    \/ \E sd \in DateParams, ch \in ChannelParams : FilterTwice(sd, ch)
    \/ ChannelSummary
    \/ AggregateChannels

AggSpec == AggInit /\ [][AggNext]_vars

\* a filter that restricts the query: given and not the empty string
Given(opt) == opt # None /\ opt[1] # ""

\* the positions of the table's rows inside the inclusive date range and of
\* the channel asked for; a filter that is not given excludes nothing
Matching(table, start_date, end_date, channel) ==
    { i \in DOMAIN table :
        /\ Given(start_date) => DateOrd(start_date[1]) <= DateOrd(table[i].date)
        /\ Given(end_date) => DateOrd(table[i].date) <= DateOrd(end_date[1])
        /\ Given(channel) => table[i].channel = channel[1] }

\* the same with every filter that is present restricting, the empty string too
MatchingPresent(table, start_date, end_date, channel) ==
    { i \in DOMAIN table :
        /\ start_date # None => DateOrd(start_date[1]) <= DateOrd(table[i].date)
        /\ end_date # None => DateOrd(table[i].date) <= DateOrd(end_date[1])
        /\ channel # None => table[i].channel = channel[1] }

RECURSIVE SumAt(_, _, _)
SumAt(S, table, field) ==
    IF S = {} THEN 0
    ELSE LET i == CHOOSE i \in S : TRUE
         IN  table[i][field] + SumAt(S \ {i}, table, field)

LastMatching == Matching(db, last.start_date, last.end_date, last.channel)

\* the rows returned are the rows of the table at the positions S, each
\* once, unchanged and in the order of the table
ReturnsRowsAt(data, S) ==
    /\ Len(data) = Cardinality(S)
    /\ \A k \in DOMAIN data :
         /\ data[k].id \in S
         /\ data[k].date = db[data[k].id].date
         /\ data[k].channel = db[data[k].id].channel
         /\ data[k].clicks = db[data[k].id].clicks
         /\ data[k].conversions = db[data[k].id].conversions
    /\ \A k, l \in DOMAIN data : k < l => data[k].id < data[l].id

\* C13: the summary of get_stats never divides by zero: when the clicks of
\* the matching records sum to 0 the avg_conversion_rate is exactly 0, and
\* when no record matches the summary is all zeros.
C13_ZeroClicksZeroRate ==
    last.op = "get_stats" =>
        /\ SumAt(LastMatching, db, "clicks") = 0 =>
              last.ret.summary.avg_conversion_rate = 0
        /\ LastMatching = {} =>
              last.ret.summary = [total_records |-> 0, total_clicks |-> 0,
                                  total_conversions |-> 0, avg_conversion_rate |-> 0]

\* the filters of a query match none of the rows of a table that has rows
C13_Witness ==
    /\ last.op = "get_stats"
    /\ db # <<>>
    /\ LastMatching = {}
    /\ last.ret.summary.avg_conversion_rate = 0

\* C14: total_records of the summary is the number of records that pass the
\* filters, and total_clicks and total_conversions are the sums of clicks and
\* conversions over exactly those records.
C14_TotalsOverMatching ==
    last.op = "get_stats" =>
        /\ last.ret.summary.total_records = Cardinality(LastMatching)
        /\ last.ret.summary.total_clicks = SumAt(LastMatching, db, "clicks")
        /\ last.ret.summary.total_conversions = SumAt(LastMatching, db, "conversions")

\* a query whose filters pass two rows of the table and reject another
C14_Witness ==
    /\ last.op = "get_stats"
    /\ last.ret.summary.total_records = 2
    /\ Len(db) = 3
    /\ last.ret.summary.total_clicks > 0

\* C15 as stated: get_stats returns exactly the records with
\* start_date <= date <= end_date and the channel of the channel filter,
\* only an absent filter being a no-op, in the order of the table.
C15_FilterExact ==
    last.op = "get_stats" =>
        ReturnsRowsAt(last.ret.data,
                      MatchingPresent(db, last.start_date, last.end_date, last.channel))

\* C15 amended: a filter that is absent or the empty string is a no-op; the
\* records returned are exactly those inside the inclusive date range given
\* and of the channel given, in the order of the table.
C15_FilterExactNonEmpty ==
    last.op = "get_stats" => ReturnsRowsAt(last.ret.data, LastMatching)

\* an empty channel filter with a start date that rejects the first row of
\* the table and passes the two after it
C15_Witness ==
    /\ last.op = "get_stats"
    /\ last.channel = Some("")
    /\ last.start_date = Some("2024-01-02")
    /\ Len(db) = 3
    /\ Len(last.ret.data) = 2
    /\ last.ret.data[1].id = 2
    /\ last.ret.data[2].id = 3

\* C16: filters commute: filtering by channel and then by start_date, by
\* start_date and then by channel, and by both in one query give the same
\* rows in the same order.
C16_FiltersCommute ==
    last.op = "filter_twice" =>
        /\ last.channel_first = last.date_first
        /\ last.date_first = last.one_call

\* both filters are given, each of them rejects a row and a row passes both
C16_Witness ==
    /\ last.op = "filter_twice"
    /\ Given(last.start_date) /\ Given(last.channel)
    /\ last.one_call # <<>>
    /\ Cardinality(Matching(db, last.start_date, None, None)) < Len(db)
    /\ Cardinality(Matching(db, None, None, last.channel)) < Len(db)
    /\ Len(last.one_call) < Cardinality(Matching(db, last.start_date, None, None))

\* the position at which a channel first occurs in the table
FirstSeen(table, ch) ==
    CHOOSE i \in DOMAIN table :
        table[i].channel = ch /\ \A j \in 1..(i - 1) : table[j].channel # ch

\* one row for every channel of the table and no other row
OnePerChannel(ret) ==
    /\ Len(ret) = Cardinality(ChannelsOf(db))
    /\ { ret[i].channel : i \in DOMAIN ret } = ChannelsOf(db)

\* round(conversions / clicks * 100, 2) in hundredths, 0 without clicks
TotalsRateX100(conversions, clicks) ==
    IF clicks = 0 THEN 0 ELSE RoundHalfEven(conversions * 10000, clicks)

\* C17: grouping by channel gives one summary per channel whose
\* avg_conversion_rate is total_conversions / total_clicks * 100 of the
\* channel (0 without clicks), not the mean of the records' rates.
C17_ChannelRateFromTotals ==
    /\ last.op = "channel_summary" =>
          /\ OnePerChannel(last.ret)
          /\ \A i \in DOMAIN last.ret :
                last.ret[i].avg_conversion_rate =
                    TotalsRateX100(last.ret[i].total_conversions, last.ret[i].total_clicks)
    /\ last.op = "aggregate_by_channel" =>
          /\ OnePerChannel(last.ret)
          /\ \A i \in DOMAIN last.ret :
                RoundHalfEven(last.ret[i].conversion_rate.num * 100,
                              last.ret[i].conversion_rate.den) =
                    TotalsRateX100(last.ret[i].conversions, last.ret[i].clicks)

\* C18: the channel summaries come in order of total_clicks descending, and
\* channels with equal total_clicks in the order in which they first occur.
C18_OrderedByClicks ==
    /\ last.op = "channel_summary" =>
          \A i, j \in DOMAIN last.ret : i < j =>
              \/ last.ret[i].total_clicks > last.ret[j].total_clicks
              \/ /\ last.ret[i].total_clicks = last.ret[j].total_clicks
                 /\ FirstSeen(db, last.ret[i].channel) < FirstSeen(db, last.ret[j].channel)
    /\ last.op = "aggregate_by_channel" =>
          \A i, j \in DOMAIN last.ret : i < j =>
              \/ last.ret[i].clicks > last.ret[j].clicks
              \/ /\ last.ret[i].clicks = last.ret[j].clicks
                 /\ FirstSeen(db, last.ret[i].channel) < FirstSeen(db, last.ret[j].channel)

\* C19: a record with clicks = 0 is included in the totals: every record of
\* an accepted upload, one without clicks too, counts in total_records and
\* its conversions in total_conversions of every summary whose filters it
\* passes.
C19_ZeroClickRecordCounted ==
    (last.op = "upload" /\ last.status = 200) =>
        \A r \in Requests :
            LET before == GetStats(last.pre_db, r.start_date, r.end_date, r.channel).summary
                after == CurrentStats(r).summary
                new == Matching(last.rows, r.start_date, r.end_date, r.channel)
            IN  /\ after.total_records = before.total_records + Cardinality(new)
                /\ after.total_conversions =
                       before.total_conversions + SumAt(new, last.rows, "conversions")

---------------------------------------------------------------------------
(* Two CacheManagers that get the same calls at the same times, each with   *)
(* cleanup_expired calls of its own added in between                        *)

twinframe == <<written, db, uploads, hist, thr>>

\* what is recorded of a call made on both caches: the two return values,
\* and whether the key had an unexpired entry in one of them
Twin(name, key, ret, twin_ret) ==
    [op |-> name, key |-> key, ret |-> ret, twin_ret |-> twin_ret,
     live |-> \/ key \in LiveKeys(cache, now)
              \/ key \in LiveKeys(shadow, now)]

TwinGet(k) ==
    LET r == CacheGet(cache, k, now)
        s == CacheGet(shadow, k, now)
    IN  /\ cache' = r.cache
        /\ shadow' = s.cache
        /\ last' = Twin("get", k, r.ret, s.ret)
        /\ UNCHANGED <<now, ticks, twinframe>>

TwinSet(k, v, ttl) ==
    /\ cache' = CacheSet(cache, k, v, ttl, now)
    /\ shadow' = CacheSet(shadow, k, v, ttl, now)
    /\ last' = Twin("set", k, None, None)
    /\ UNCHANGED <<now, ticks, twinframe>>

TwinDelete(k) ==
    LET r == CacheDelete(cache, k)
        s == CacheDelete(shadow, k)
    IN  /\ cache' = r.cache
        /\ shadow' = s.cache
        /\ last' = Twin("delete", k, r.ret, s.ret)
        /\ UNCHANGED <<now, ticks, twinframe>>

TwinClear ==
    /\ cache' = CacheClear(cache)
    /\ shadow' = CacheClear(shadow)
    /\ last' = Twin("clear", "", None, None)
    /\ UNCHANGED <<now, ticks, twinframe>>

\* cleanup_expired called on the first cache only
SweepCache ==
    /\ cache' = CleanupExpired(cache, now).cache
    /\ last' = Twin("sweep", "", None, None)
    /\ UNCHANGED <<shadow, now, ticks, twinframe>>

\* cleanup_expired called on the second cache only
SweepShadow ==
    /\ shadow' = CleanupExpired(shadow, now).cache
    /\ last' = Twin("sweep_twin", "", None, None)
    /\ UNCHANGED <<cache, now, ticks, twinframe>>

TwinTick(d) ==
    /\ ticks < MaxTicks
    /\ now' = now + d
    /\ ticks' = ticks + 1
    /\ last' = Twin("tick", "", None, None)
    /\ UNCHANGED <<cache, shadow, twinframe>>

TwinNext ==
    \/ \E k \in Keys : TwinGet(k)
    \/ \E k \in Keys, v \in Values, ttl \in TtlArgs : TwinSet(k, v, ttl)
    \/ \E k \in Keys : TwinDelete(k)
    \/ TwinClear
    \/ SweepCache
    \/ SweepShadow
    \/ \E d \in ClockSteps : TwinTick(d)

SweepSpec == Init /\ [][TwinNext]_vars

\* the entries of a cache that get would still return at time t
LiveEntries(c, t) == [k \in LiveKeys(c, t) |-> c[k]]

\* C20: the sweep is not needed for the correctness of get: two caches that
\* get the same calls and differ only in when cleanup_expired runs return
\* the same value from every get and the same boolean from every delete of
\* a key with an unexpired entry, and hold the same unexpired entries; they
\* differ only in expired entries not yet swept.
C20_SweepUnobservable ==
    /\ last.op = "get" => last.ret = last.twin_ret
    /\ (last.op = "delete" /\ last.live) => last.ret = last.twin_ret
    /\ LiveEntries(cache, now) = LiveEntries(shadow, now)

\* a get that returns a value from both caches while one of them still holds
\* an expired entry that the other has swept
C20_Witness ==
    /\ last.op = "get"
    /\ last.ret # None
    /\ \E k \in DOMAIN shadow : k \notin DOMAIN cache /\ shadow[k].expires_at < now

\* C21: get(key) changes the map only by removing the entry of key when
\* that entry is expired: a get that returns a live entry, or a get of a key
\* that is not present, leaves the whole map as it was, expiry times
\* included, and a get of an expired key leaves every other entry as it was.
C21_GetFrame ==
    last.op = "get" =>
        cache = IF LastKey \in DOMAIN last.pre /\ PreEntry.expires_at < last.at
                THEN [k \in (DOMAIN last.pre) \ {LastKey} |-> last.pre[k]]
                ELSE last.pre

\* a get that returned a live entry after the clock had advanced, while
\* another key held an expired entry that the get left in the map
C21_Witness ==
    /\ last.op = "get"
    /\ last.ret # None
    /\ last.at > 0
    /\ cache = last.pre
    /\ \E k \in DOMAIN cache : k # LastKey /\ cache[k].expires_at < now

\* the entry the cache holds for the request of the last call is the
\* aggregator's result on the table, expiring 300 seconds after the call
FreshEntryStored ==
    /\ KeyOf(last.req) \in DOMAIN cache
    /\ cache[KeyOf(last.req)] = [value |-> CurrentStats(last.req),
                                 expires_at |-> last.at + 300]

\* C22 as stated: a result the query handler computed at time t is never
\* returned later than t + 300, and a request with the same parameters made
\* after that instant recomputes through the aggregator and stores a fresh
\* entry.
C22_RecomputedAfterTtl ==
    last.op = "stats" =>
        /\ ~last.invoked =>
              last.computed_at # None /\ last.at <= last.computed_at[1] + 300
        /\ (last.computed_at # None /\ last.at > last.computed_at[1] + 300) =>
              last.invoked /\ FreshEntryStored

\* C22 amended: a result computed at time t is stored to expire at t + 300
\* and is never returned later than that; a request with the same parameters
\* made after that instant invokes the aggregator again and stores a fresh
\* entry when the aggregator returns, and no entry when it raises.
C22_RecomputedAfterTtlUnlessRaise ==
    last.op = "stats" =>
        /\ ~last.invoked =>
              last.computed_at # None /\ last.at <= last.computed_at[1] + 300
        /\ (last.invoked /\ last.status = 200) => FreshEntryStored
        /\ (last.computed_at # None /\ last.at > last.computed_at[1] + 300) =>
              /\ last.invoked
              /\ last.status # 200 => KeyOf(last.req) \notin DOMAIN cache

\* a request made more than 300 seconds after its result was computed was
\* answered by the aggregator and its result stored anew
C22_Witness ==
    /\ last.op = "stats"
    /\ last.computed_at # None
    /\ last.at > last.computed_at[1] + 300
    /\ last.invoked
    /\ last.status = 200
    /\ FreshEntryStored
    /\ db # <<>>

\* C23: an upload that fails, in processing or in saving, reports an error,
\* stores none of its records and does not clear the cache: the table and
\* every cache entry are as they were before it.
C23_FailedUploadChangesNothing ==
    (last.op = "upload" /\ last.status # 200) =>
        /\ last.status = 400
        /\ db = last.pre_db
        /\ cache = last.pre

\* an upload with records to save failed while the table held rows and the
\* cache held a result, and both are still there
C23_Witness ==
    /\ last.op = "upload"
    /\ last.status = 400
    /\ \E i \in DOMAIN last.rows : last.rows[i].clicks > 0
    /\ db # <<>>
    /\ cache # EmptyCache
    /\ cache = last.pre

\* C24: a failure of the aggregator is never cached: when get_stats raises
\* in a call of the query handler, the handler reports an error, no entry is
\* stored under the key of the call and the entries of all other keys stay
\* as they were; the next call with the same parameters invokes the
\* aggregator again.
C24_FailureNotCached ==
    last.op = "stats" =>
        /\ last.status # 200 =>
              /\ last.status = 500
              /\ last.invoked
              /\ last.ret = None
              /\ KeyOf(last.req) \notin DOMAIN cache
              /\ \A k \in (DOMAIN last.pre \cup DOMAIN cache) \ {KeyOf(last.req)} :
                    k \in DOMAIN last.pre /\ k \in DOMAIN cache /\ cache[k] = last.pre[k]
        /\ last.failed_before => last.invoked

\* the call after a failed call with the same parameters went to the
\* aggregator again, which raised again, while the result cached for other
\* parameters stayed in the cache
C24_Witness ==
    /\ last.op = "stats"
    /\ last.failed_before
    /\ last.invoked
    /\ last.status = 500
    /\ \E k \in DOMAIN cache : k # KeyOf(last.req) /\ cache[k] = last.pre[k]

=============================================================================
